---- MODULE Spec2Model ----
(***************************************************************************)
(* Native audio backend of Audion (src-tauri/src/audio.rs).                *)
(*                                                                         *)
(* One worker thread owns the AudioPlayer (player_opt) and consumes        *)
(* AudioCommands from an unbounded channel; after every iteration it       *)
(* copies the recomputed PlaybackState into the shared snapshot.  The      *)
(* tauri commands only append to the channel or read the snapshot.         *)
(*                                                                         *)
(* Time is counted in ticks of 0.1 s (the receive timeout of the worker    *)
(* and the epsilon of audio_is_finished are one tick).  Volumes are        *)
(* counted in tenths.  Option<T> is a sequence: <<>> is None, <<x>> is     *)
(* Some(x).  A Seek fraction num/den is <<num, den>>.                      *)
(*                                                                         *)
(* Spec takes an iteration of the worker as two steps (the command, the    *)
(* publish); SpecLock takes it lock by lock, with the queries in between.  *)
(* SpecLifetime adds the shutdown of the application and a Seek whose      *)
(* fraction is not a number; SpecEq runs the equalizer pipeline alone,     *)
(* over fixed-point samples.                                               *)
(***************************************************************************)
EXTENDS Integers, Sequences, FiniteSets, TLC

\* ------------------------------------------------------------------ bounds
MaxTime == 3      \* ticks of wall-clock time explored
MaxCmds == 3      \* commands the callers send in one run
MaxQueue == 2     \* commands waiting in the channel at once
MaxSeekCmds == 4  \* commands of a run of the play/pause/seek callers
MaxIdleCmds == 2  \* commands of a run of the callers that then stay idle
MaxLockCmds == 2  \* commands of a run observed lock by lock
MaxLifeCmds == 3  \* commands of a run that ends with the application
MaxSamples == 5   \* samples of an input of the equalizer
MaxBands == 2     \* bands of an EqSettings given to the equalizer

\* ------------------------------------------------------- the environment
None == <<>>
Some(x) == <<x>>

\* Files the callers name: A reports its duration, B does not (a decoder
\* may report none), X does not exist.
Paths == {"A", "B", "X"}
FileExists(path) == path \in {"A", "B"}
FileLen(path) == IF path = "A" THEN 2 ELSE IF path = "B" THEN 2 ELSE 0
FileDuration(path) == IF path = "A" THEN Some(2) ELSE None

\* What can happen inside play_file / seek after the old sink is stopped:
\* Sink::try_new fails ("sink"), File::open or Decoder::new fails ("io"),
\* or everything succeeds ("ok").  A file that does not exist never opens;
\* one that exists can still fail (removed, unreadable, corrupt).
LoadOutcomes(path) == IF FileExists(path) THEN {"ok", "io", "sink"} ELSE {"io", "sink"}

\* EqSettings values sent by callers: the default (disabled, all gains 0)
\* and one with enabled = true and a non-zero gain.
EqDefault == "default"
EqBoost == "boost"
EqValues == {EqDefault, EqBoost}

SeekArgs == {<<-1, 2>>, <<1, 2>>, <<3, 2>>}   \* fractions -0.5, 0.5, 1.5
NoFraction == <<0, 1>>
\* The fraction 0.0 / 0.0: an f64 that is not a number.
NaNFraction == <<0, 0>>
VolumeArgs == {-10, 5, 50}    \* -1.0, 0.5, 5.0

Cmd(op, path, v, f, eq) == [op |-> op, path |-> path, v |-> v, f |-> f, eq |-> eq]
Play(path) == Cmd("Play", path, 0, NoFraction, EqDefault)
Pause == Cmd("Pause", "", 0, NoFraction, EqDefault)
Resume == Cmd("Resume", "", 0, NoFraction, EqDefault)
Stop == Cmd("Stop", "", 0, NoFraction, EqDefault)
SetVolume(v) == Cmd("SetVolume", "", v, NoFraction, EqDefault)
Seek(f) == Cmd("Seek", "", 0, f, EqDefault)
SetEq(eq) == Cmd("SetEq", "", 0, NoFraction, eq)
NoCommand == Cmd("none", "", 0, NoFraction, EqDefault)

AudioCommand ==
    {Play(p) : p \in Paths} \cup {Pause, Resume, Stop}
    \cup {SetVolume(v) : v \in VolumeArgs}
    \cup {Seek(f) : f \in SeekArgs}
    \cup {SetEq(e) : e \in EqValues}

\* ------------------------------------------------- DSP: equalizer filters
\* f32 values are fixed-point integers in thousandths: 1000 is 1.0.
Scale == 1000
FMul(a, b) == (a * b) \div Scale
FDiv(a, b) == IF b > 0 THEN (a * Scale) \div b ELSE -((a * Scale) \div (-b))
Abs(a) == IF a < 0 THEN -a ELSE a

\* The bands the callers set: frequencies in Hz, gains in dB.  The sample
\* rate of the inputs is 16000 Hz, so 2000 Hz is below the Nyquist
\* frequency and 12000 Hz above it.
BandFrequencies == {2000, 12000}
BandGains == {0, 40}
EqBand == [frequency : BandFrequencies, gain : BandGains]

RECURSIVE SeqsUpTo(_, _)
SeqsUpTo(S, n) ==
    IF n = 0 THEN {<<>>}
    ELSE LET shorter == SeqsUpTo(S, n - 1)
         IN  shorter \cup {Append(q, x) : q \in {r \in shorter : Len(r) = n - 1},
                                          x \in S}

EqSettings == [enabled : BOOLEAN, bands : SeqsUpTo(EqBand, MaxBands)]

\* The inputs of the pipeline: a source of interleaved samples with its
\* sample rate, channel count and total duration.
SampleValues == {0, Scale}
InputSources ==
    [sample_rate : {16000}, channels : {1, 2},
     total_duration : {None, Some(2)},
     samples : SeqsUpTo(SampleValues, MaxSamples)]

\* Source::current_frame_len of the input: the samples left in it.
InputFrameLen(input) == Some(Len(input.samples))

\* 10.0f32.powf(gain_db / 40.0), exact at the gains of BandGains.
Powf10(gain_db) ==
    CASE gain_db = -40 -> Scale \div 10
      [] gain_db = 0 -> Scale
      [] gain_db = 40 -> 10 * Scale

\* w0 = 2 pi freq / sample_rate in eighths of a turn: the frequencies of
\* BandFrequencies are multiples of an eighth of the sample rate, where
\* sin and cos are 0, 1 or 0.707 in magnitude.
EighthTurns(freq, sample_rate) == ((8 * freq) \div sample_rate) % 8
HalfSqrt2 == (707 * Scale) \div 1000
Sin(turns) ==
    CASE turns \in {0, 4} -> 0
      [] turns \in {1, 3} -> HalfSqrt2
      [] turns = 2 -> Scale
      [] turns \in {5, 7} -> -HalfSqrt2
      [] turns = 6 -> -Scale
Cos(turns) == Sin((turns + 2) % 8)

\* let q = 1.41
Q == 1410

\* A constructor that stores the coefficients without dividing by a0.
new_peaking_unnormalized(freq, gain_db, sample_rate, q) ==
    LET a == Powf10(gain_db)
        w0 == EighthTurns(freq, sample_rate)
        alpha == FDiv(Sin(w0), 2 * q)
    IN  [b0 |-> Scale + FMul(alpha, a), b1 |-> -2 * Cos(w0),
         b2 |-> Scale - FMul(alpha, a),
         a1 |-> -2 * Cos(w0), a2 |-> Scale - FDiv(alpha, a),
         x1 |-> 0, x2 |-> 0, y1 |-> 0, y2 |-> 0]

\* BiquadFilter::new_peaking
new_peaking(freq, gain_db, sample_rate, q) ==
    LET a == Powf10(gain_db)
        w0 == EighthTurns(freq, sample_rate)
        alpha == FDiv(Sin(w0), 2 * q)
        b0 == Scale + FMul(alpha, a)
        b1 == -2 * Cos(w0)
        b2 == Scale - FMul(alpha, a)
        a0 == Scale + FDiv(alpha, a)
        a1 == -2 * Cos(w0)
        a2 == Scale - FDiv(alpha, a)
    IN  [b0 |-> FDiv(b0, a0), b1 |-> FDiv(b1, a0), b2 |-> FDiv(b2, a0),
         a1 |-> FDiv(a1, a0), a2 |-> FDiv(a2, a0),
         x1 |-> 0, x2 |-> 0, y1 |-> 0, y2 |-> 0]

\* A process that shifts x1 into x2 after it has overwritten x1.
process_shift_late(self, sample) ==
    LET out == FMul(self.b0, sample) + FMul(self.b1, self.x1)
               + FMul(self.b2, self.x2)
               - FMul(self.a1, self.y1) - FMul(self.a2, self.y2)
    IN  [filter |-> [self EXCEPT !.x2 = sample, !.x1 = sample,
                                 !.y2 = self.y1, !.y1 = out],
         out |-> out]

\* BiquadFilter::process: the filter afterwards and the sample returned.
process(self, sample) ==
    LET out == FMul(self.b0, sample) + FMul(self.b1, self.x1)
               + FMul(self.b2, self.x2)
               - FMul(self.a1, self.y1) - FMul(self.a2, self.y2)
    IN  [filter |-> [self EXCEPT !.x2 = self.x1, !.x1 = sample,
                                 !.y2 = self.y1, !.y1 = out],
         out |-> out]

\* A chain with a filter for every band, the bands of gain 0 included.
RECURSIVE BaseFiltersAllBands(_, _, _)
BaseFiltersAllBands(bands, sample_rate, q) ==
    IF bands = <<>> THEN <<>>
    ELSE <<new_peaking(Head(bands).frequency, Head(bands).gain, sample_rate, q)>>
         \o BaseFiltersAllBands(Tail(bands), sample_rate, q)

\* The loop of EqSource::new over settings.bands (lines 154-163).
RECURSIVE BaseFilters(_, _, _)
BaseFilters(bands, sample_rate, q) ==
    IF bands = <<>> THEN <<>>
    ELSE (IF Head(bands).gain # 0
          THEN <<new_peaking(Head(bands).frequency, Head(bands).gain,
                             sample_rate, q)>>
          ELSE <<>>)
         \o BaseFilters(Tail(bands), sample_rate, q)

\* A constructor that builds the filters of the bands whatever `enabled` is.
EqSourceNewAlwaysEnabled(input, settings) ==
    LET base_filters == BaseFilters(settings.bands, input.sample_rate, Q)
    IN  [input |-> input, sample_rate |-> input.sample_rate,
         channels |-> input.channels,
         filter_states |-> [c \in 0 .. input.channels - 1 |-> base_filters],
         current_channel |-> 0]

\* EqSource::new; channels are numbered from 0 as in the source.
EqSourceNew(input, settings) ==
    LET sample_rate == input.sample_rate
        channels == input.channels
        base_filters == IF settings.enabled
                        THEN BaseFilters(settings.bands, sample_rate, Q)
                        ELSE <<>>
    IN  [input |-> input, sample_rate |-> sample_rate, channels |-> channels,
         filter_states |-> [c \in 0 .. channels - 1 |-> base_filters],
         current_channel |-> 0]

\* for filter in channel_filters { sample = filter.process(sample); }
RECURSIVE ProcessChain(_, _)
ProcessChain(chain, sample) ==
    IF chain = <<>> THEN [chain |-> <<>>, out |-> sample]
    ELSE LET first == process(Head(chain), sample)
             rest == ProcessChain(Tail(chain), first.out)
         IN  [chain |-> <<first.filter>> \o rest.chain, out |-> rest.out]

\* A next that never moves the channel cursor.
EqSourceNextOneChannel(self) ==
    IF self.input.samples = <<>> THEN [self |-> self, item |-> None]
    ELSE LET r == ProcessChain(self.filter_states[self.current_channel],
                               Head(self.input.samples))
         IN  [self |-> [self EXCEPT
                          !.input.samples = Tail(@),
                          !.filter_states[self.current_channel] = r.chain],
              item |-> Some(r.out)]

\* A next that swallows the sample that ends the input.
EqSourceNextShort(self) ==
    IF Len(self.input.samples) <= 1
    THEN [self |-> [self EXCEPT !.input.samples = <<>>], item |-> None]
    ELSE LET r == ProcessChain(self.filter_states[self.current_channel],
                               Head(self.input.samples))
         IN  [self |-> [self EXCEPT
                          !.input.samples = Tail(@),
                          !.filter_states[self.current_channel] = r.chain,
                          !.current_channel = (@ + 1) % self.channels],
              item |-> Some(r.out)]

\* Iterator::next of EqSource: the pipeline afterwards and the Option
\* returned.
EqSourceNext(self) ==
    IF self.input.samples = <<>> THEN [self |-> self, item |-> None]
    ELSE LET r == ProcessChain(self.filter_states[self.current_channel],
                               Head(self.input.samples))
         IN  [self |-> [self EXCEPT
                          !.input.samples = Tail(@),
                          !.filter_states[self.current_channel] = r.chain,
                          !.current_channel = (@ + 1) % self.channels],
              item |-> Some(r.out)]

\* impl Source for EqSource
current_frame_len(self) == InputFrameLen(self.input)
channels(self) == self.channels
sample_rate(self) == self.sample_rate
total_duration(self) == self.input.total_duration

\* ------------------------------------------------------------ rodio Sink
\* left: ticks of audio still queued (0: the sink reports empty); eq: the
\* settings the EqSource of the appended source was built from.
SinkNew == [paused |-> FALSE, left |-> 0, volume |-> 10, eq |-> None]
SinkStop(s) == [s EXCEPT !.left = 0]
SinkPause(s) == [s EXCEPT !.paused = TRUE]
SinkPlay(s) == [s EXCEPT !.paused = FALSE]
SinkSetVolume(s, v) == [s EXCEPT !.volume = v]
SinkAppend(s, len, eq) == [s EXCEPT !.left = @ + len, !.eq = Some(eq)]
SinkIsPaused(s) == s.paused
SinkEmpty(s) == s.left = 0
\* One tick of the output device consuming the queue.
SinkDrain(s) == IF s.paused \/ s.left = 0 THEN s ELSE [s EXCEPT !.left = @ - 1]

\* The tick that consumes the last of the queue.
SinkDrained(s) == ~s.paused /\ s.left = 1

\* ------------------------------------------------------------ state types
DefaultVolume == 7

PlaybackStateDefault ==
    [is_playing |-> FALSE, position |-> 0, duration |-> 0, volume |-> DefaultVolume,
     current_path |-> "", eq_settings |-> EqDefault, is_initialized |-> FALSE]

AudioPlayerNew ==
    [sink |-> SinkNew, track_duration |-> None, playback_started_at |-> None,
     position_at_pause |-> 0, current_path |-> "", volume |-> DefaultVolume,
     eq_settings |-> EqDefault]

Elapsed(started_at, t) == t - started_at[1]
DurationSecs(d) == IF d = None THEN 0 ELSE d[1]
Min(a, b) == IF a < b THEN a ELSE b
Max(a, b) == IF a > b THEN a ELSE b

\* ------------------------------------------------------------ AudioPlayer
\* Every operation returns [p |-> the player afterwards, ok |-> its Result].
Done(p, ok) == [p |-> p, ok |-> ok]

play_file_keep_duration(self, path, outcome, t) ==
    IF outcome = "sink"
    THEN Done([self EXCEPT !.sink = SinkStop(self.sink)], FALSE)
    ELSE IF outcome = "io"
    THEN Done([self EXCEPT !.sink = SinkNew], FALSE)
    ELSE Done([self EXCEPT
                 !.track_duration = IF FileDuration(path) = None THEN @
                                    ELSE FileDuration(path),
                 !.sink = SinkPlay(SinkAppend(SinkSetVolume(SinkNew, self.volume),
                                              FileLen(path), self.eq_settings)),
                 !.current_path = path,
                 !.playback_started_at = Some(t),
                 !.position_at_pause = 0], TRUE)

\* A play_file that leaves the new sink at the library's default volume.
play_file_default_volume(self, path, outcome, t) ==
    IF outcome = "sink"
    THEN Done([self EXCEPT !.sink = SinkStop(self.sink)], FALSE)
    ELSE IF outcome = "io"
    THEN Done([self EXCEPT !.sink = SinkNew], FALSE)
    ELSE Done([self EXCEPT
                 !.track_duration = FileDuration(path),
                 !.sink = SinkPlay(SinkAppend(SinkNew, FileLen(path),
                                              self.eq_settings)),
                 !.current_path = path,
                 !.playback_started_at = Some(t),
                 !.position_at_pause = 0], TRUE)

play_file(self, path, outcome, t) ==
    IF outcome = "sink"
    THEN Done([self EXCEPT !.sink = SinkStop(self.sink)], FALSE)
    ELSE IF outcome = "io"
    THEN Done([self EXCEPT !.sink = SinkNew], FALSE)
    ELSE Done([self EXCEPT
                 !.track_duration = FileDuration(path),
                 !.sink = SinkPlay(SinkAppend(SinkSetVolume(SinkNew, self.volume),
                                              FileLen(path), self.eq_settings)),
                 !.current_path = path,
                 !.playback_started_at = Some(t),
                 !.position_at_pause = 0], TRUE)

pause_keep_position(self, t) ==
    Done([self EXCEPT
            !.playback_started_at = None,
            !.sink = SinkPause(self.sink)], TRUE)

\* A pause that works as a toggle: it lets a paused sink play again.
pause_toggle(self, t) ==
    Done([self EXCEPT
            !.position_at_pause =
                IF self.playback_started_at # None
                THEN @ + Elapsed(self.playback_started_at, t) ELSE @,
            !.playback_started_at = None,
            !.sink = IF SinkIsPaused(self.sink) THEN SinkPlay(self.sink)
                     ELSE SinkPause(self.sink)], TRUE)

pause(self, t) ==
    Done([self EXCEPT
            !.position_at_pause =
                IF self.playback_started_at # None
                THEN @ + Elapsed(self.playback_started_at, t) ELSE @,
            !.playback_started_at = None,
            !.sink = SinkPause(self.sink)], TRUE)

resume(self, t) ==
    Done([self EXCEPT
            !.sink = SinkPlay(self.sink),
            !.playback_started_at = Some(t)], TRUE)

\* A stop that leaves the accumulated position in place.
stop_keep_position(self) ==
    Done([self EXCEPT
            !.sink = SinkStop(self.sink),
            !.current_path = "",
            !.playback_started_at = None], TRUE)

\* A stop that forgets the track but leaves its queue in the sink.
stop_keep_queue(self) ==
    Done([self EXCEPT
            !.current_path = "",
            !.playback_started_at = None,
            !.position_at_pause = 0], TRUE)

stop(self) ==
    Done([self EXCEPT
            !.sink = SinkStop(self.sink),
            !.current_path = "",
            !.playback_started_at = None,
            !.position_at_pause = 0], TRUE)

ClampVolumeAbove(v) == Min(v, 10)

\* f32::clamp(0.0, 1.0), in tenths.
ClampVolume(v) == Max(0, Min(v, 10))

set_volume(self, v) ==
    Done([self EXCEPT
            !.sink = SinkSetVolume(self.sink, ClampVolume(v)),
            !.volume = ClampVolume(v)], TRUE)

SeekToUnclamped(duration, num, den) == (duration * num) \div den

\* duration * position_fraction.clamp(0.0, 1.0) for the fraction num/den.
SeekTo(duration, num, den) ==
    IF num <= 0 THEN 0
    ELSE IF num >= den THEN duration
    ELSE (duration * num) \div den

WasPlaying(self) == self.playback_started_at # None \/ ~SinkIsPaused(self.sink)

seek_stop_first(self, num, den, outcome, t) ==
    LET stopped == [self EXCEPT !.sink = SinkStop(self.sink)]
    IN  IF self.current_path = "" THEN Done(stopped, FALSE)
        ELSE IF self.track_duration = None THEN Done(stopped, FALSE)
        ELSE LET seek_to == SeekTo(self.track_duration[1], num, den)
                 was_playing == WasPlaying(self)
                 fresh == SinkAppend(SinkSetVolume(SinkNew, self.volume),
                                     Max(FileLen(self.current_path) - seek_to, 0),
                                     self.eq_settings)
             IN  IF outcome # "ok" THEN Done([self EXCEPT !.sink = SinkNew], FALSE)
                 ELSE Done([self EXCEPT
                              !.position_at_pause = seek_to,
                              !.sink = IF was_playing THEN SinkPlay(fresh)
                                       ELSE SinkPause(fresh),
                              !.playback_started_at =
                                  IF was_playing THEN Some(t) ELSE None], TRUE)

\* A seek that unloads the track when it cannot read the file again.
seek_unload_on_failure(self, num, den, outcome, t) ==
    IF self.current_path = "" THEN Done(self, FALSE)
    ELSE IF self.track_duration = None THEN Done(self, FALSE)
    ELSE LET seek_to == SeekTo(self.track_duration[1], num, den)
             was_playing == WasPlaying(self)
             path == self.current_path
             fresh == SinkAppend(SinkSetVolume(SinkNew, self.volume),
                                 Max(FileLen(path) - seek_to, 0), self.eq_settings)
         IN  IF outcome = "sink"
             THEN Done([self EXCEPT !.sink = SinkStop(self.sink)], FALSE)
             ELSE IF outcome = "io"
             THEN Done([self EXCEPT !.sink = SinkNew, !.current_path = "",
                                    !.playback_started_at = None], FALSE)
             ELSE Done([self EXCEPT
                          !.position_at_pause = seek_to,
                          !.sink = IF was_playing THEN SinkPlay(fresh)
                                   ELSE SinkPause(fresh),
                          !.playback_started_at =
                              IF was_playing THEN Some(t) ELSE None], TRUE)

seek(self, num, den, outcome, t) ==
    IF self.current_path = "" THEN Done(self, FALSE)
    ELSE IF self.track_duration = None THEN Done(self, FALSE)
    ELSE LET seek_to == SeekTo(self.track_duration[1], num, den)
             was_playing == WasPlaying(self)
             path == self.current_path
             fresh == SinkAppend(SinkSetVolume(SinkNew, self.volume),
                                 Max(FileLen(path) - seek_to, 0), self.eq_settings)
         IN  IF outcome = "sink"
             THEN Done([self EXCEPT !.sink = SinkStop(self.sink)], FALSE)
             ELSE IF outcome = "io"
             THEN Done([self EXCEPT !.sink = SinkNew], FALSE)
             ELSE Done([self EXCEPT
                          !.position_at_pause = seek_to,
                          !.sink = IF was_playing THEN SinkPlay(fresh)
                                   ELSE SinkPause(fresh),
                          !.playback_started_at =
                              IF was_playing THEN Some(t) ELSE None], TRUE)

\* The position of the snapshot (lines 387-394).
Position(self, t) ==
    IF self.playback_started_at # None
    THEN LET pos == self.position_at_pause + Elapsed(self.playback_started_at, t)
             duration == DurationSecs(self.track_duration)
         IN  IF duration > 0 /\ pos > duration THEN duration ELSE pos
    ELSE self.position_at_pause

\* is_playing without asking the sink whether its queue is empty.
IsPlayingQueueUnchecked(self) ==
    /\ self.playback_started_at # None
    /\ ~SinkIsPaused(self.sink)

\* Lines 380-382 and 396-398: a segment is active, the sink is neither paused
\* nor empty; and never playing when the queue is empty with a path loaded.
IsPlaying(self) ==
    /\ self.playback_started_at # None
    /\ ~SinkIsPaused(self.sink)
    /\ ~SinkEmpty(self.sink)
    /\ ~(SinkEmpty(self.sink) /\ self.current_path # "")

\* An update_state that fills a default snapshot instead of the shared one.
update_state_from_default(self, state, t) ==
    [PlaybackStateDefault EXCEPT
       !.is_playing = IsPlaying(self),
       !.duration = DurationSecs(self.track_duration),
       !.current_path = self.current_path,
       !.volume = self.volume,
       !.eq_settings = self.eq_settings,
       !.position = Position(self, t)]

update_state(self, state, t) ==
    [state EXCEPT
       !.is_playing = IsPlaying(self),
       !.duration = DurationSecs(self.track_duration),
       !.current_path = self.current_path,
       !.volume = self.volume,
       !.eq_settings = self.eq_settings,
       !.position = Position(self, t)]

\* audio_is_finished on a snapshot (line 585); 0.1 s is one tick.
FinishedEpsilon == 1

is_finished(s) ==
    /\ ~s.is_playing
    /\ s.current_path # ""
    /\ s.position >= s.duration - FinishedEpsilon

get_state_for_internal(self, t) ==
    [PlaybackStateDefault EXCEPT
       !.duration = DurationSecs(self.track_duration),
       !.position =
           IF self.playback_started_at # None
           THEN self.position_at_pause + Elapsed(self.playback_started_at, t)
           ELSE self.position_at_pause]

\* A SetEq that keeps the old settings when its re-seek fails.
set_eq_or_revert(self, settings, outcome, t) ==
    LET p1 == [self EXCEPT !.eq_settings = settings]
        current_pos == get_state_for_internal(p1, t).position
        duration == DurationSecs(p1.track_duration)
        r == seek(p1, current_pos, duration, outcome, t)
    IN  IF p1.current_path # "" /\ duration > 0
        THEN IF r.ok THEN Done(r.p, TRUE)
             ELSE Done([r.p EXCEPT !.eq_settings = self.eq_settings], FALSE)
        ELSE Done(p1, TRUE)

set_eq(self, settings, outcome, t) ==
    LET p1 == [self EXCEPT !.eq_settings = settings]
        current_pos == get_state_for_internal(p1, t).position
        duration == DurationSecs(p1.track_duration)
    IN  IF p1.current_path # "" /\ duration > 0
        THEN Done(seek(p1, current_pos, duration, outcome, t).p, TRUE)
        ELSE Done(p1, TRUE)

\* Lines 342-347: past the two checks, seek clamps the fraction, which
\* leaves a NaN a NaN, and Duration::from_secs_f64 panics on a NaN.
SeekPanics(self, cmd) ==
    /\ cmd.op = "Seek"
    /\ cmd.f = NaNFraction
    /\ self.current_path # ""
    /\ self.track_duration # None

\* The match on the dequeued command (lines 443-467).
Dispatch(self, cmd, outcome, t) ==
    CASE cmd.op = "Play" -> play_file(self, cmd.path, outcome, t)
      [] cmd.op = "Pause" -> pause(self, t)
      [] cmd.op = "Resume" -> resume(self, t)
      [] cmd.op = "Stop" -> stop(self)
      [] cmd.op = "SetVolume" -> set_volume(self, cmd.v)
      [] cmd.op = "Seek" -> seek(self, cmd.f[1], cmd.f[2], outcome, t)
      [] cmd.op = "SetEq" -> set_eq(self, cmd.eq, outcome, t)

\* The outcomes the environment can give the command: only a Play, and a
\* Seek or SetEq that gets past the checks of seek, touch the device/files.
Outcomes(self, cmd) ==
    CASE cmd.op = "Play" -> LoadOutcomes(cmd.path)
      [] cmd.op \in {"Seek", "SetEq"} ->
            IF self.current_path # "" /\ self.track_duration # None
            THEN LoadOutcomes(self.current_path) ELSE {"ok"}
      [] OTHER -> {"ok"}

\* The command builds a new sink and appends a source to it.
Loads(self, cmd) ==
    \/ cmd.op = "Play"
    \/ /\ cmd.op \in {"Seek", "SetEq"}
       /\ self.current_path # ""
       /\ self.track_duration # None

\* Whether the source of the sink that `post` holds has reached its end: a
\* source appended by this command has if nothing of it is left (a seek to
\* the end), a sink replaced without a source has not, and a sink that is
\* kept (stopped or untouched) is as it was.
DrainedAfter(self, cmd, outcome, post, was) ==
    IF Loads(self, cmd) /\ outcome = "ok" THEN SinkEmpty(post.sink)
    ELSE IF Loads(self, cmd) /\ outcome = "io" THEN FALSE
    ELSE was

\* The history pause_mark after `cmd` is executed on `self` at time t.
PauseMarkAfter(self, cmd, mark, t) ==
    IF cmd.op = "Pause" /\ self.playback_started_at # None
    THEN Some([at |-> t, pos |-> Position(self, t), resumed |-> FALSE])
    ELSE IF /\ cmd.op = "Resume"
            /\ mark # None
            /\ ~mark[1].resumed
            /\ mark[1].at = t
    THEN Some([mark[1] EXCEPT !.resumed = TRUE])
    ELSE None

\* No pipeline has been built yet.
NoHistory ==
    [settings |-> [enabled |-> FALSE, bands |-> <<>>],
     input |-> [sample_rate |-> 16000, channels |-> 1, total_duration |-> None,
                samples |-> <<>>],
     out |-> <<>>, ended |-> FALSE]

\* std::sync::Mutex: the thread holding the guard, and the poison flag a
\* panic of the holder sets.
MutexNew == [holder |-> "none", poisoned |-> FALSE]

\* What a query returned: Ok or Err, the snapshot of audio_get_state, the
\* bool of audio_is_finished and native_audio_available; and, as history,
\* where the worker was when it returned.
Result(call, ok, state, value, worker) ==
    [call |-> call, ok |-> ok, state |-> state, value |-> value, worker |-> worker]

\* No query has returned yet.
NoResult == Result("none", TRUE, PlaybackStateDefault, FALSE, "recv")

\* ------------------------------------------------------- the state machine
VARIABLES
    chan,          \* the crossbeam channel: commands in flight, oldest first
    tx_alive,      \* the PlaybackStateSync (the only Sender) still exists
    player_opt,    \* the worker's Option<AudioPlayer>
    shared_state,  \* the Arc<Mutex<PlaybackState>> snapshot
    pc,            \* the worker: "recv" (in recv_timeout), "publish" (line 473), "exit"
    now,           \* the monotonic clock (Instant::now), in ticks
    ret,           \* the Result of the latest control call: "none", "Ok", "Err"
    nsent,         \* history: commands enqueued so far
    ndeq,          \* history: commands dequeued so far
    last,          \* history: the command the worker executed last, and its Result
    pause_mark     \* history: Some([at, pos, resumed]) while the command executed
                   \*   last is a Pause of an active segment, executed at `at` with
                   \*   the position `pos` reported at that instant just before it
                   \*   (resumed = FALSE), or the Resume executed right after that
                   \*   Pause at the same instant (resumed = TRUE)
VARIABLES
    drained,       \* history: the source appended to the current sink was
                   \*   played (or skipped) to its end
    lock,          \* the Mutex of the snapshot: who holds it, and its poison flag
    cur,           \* the command the worker has dequeued and not yet executed
    got            \* the value the latest query returned
VARIABLES
    eq_source,     \* an EqSource under test: None, or Some(the pipeline)
    eq_hist        \* history of eq_source: the settings and the input it was
                   \*   built from, the samples it has returned, and whether
                   \*   its next has returned None

vars == <<chan, tx_alive, player_opt, shared_state, pc, now, ret, nsent, ndeq,
          last, pause_mark, drained, lock, cur, got, eq_source, eq_hist>>

\* A construction that creates the engine and its output device at once.
InitEager ==
    /\ chan = <<>>
    /\ tx_alive = TRUE
    /\ player_opt = Some(AudioPlayerNew)
    /\ shared_state = [PlaybackStateDefault EXCEPT !.is_initialized = TRUE]
    /\ pc = "recv"
    /\ now = 0
    /\ ret = "none"
    /\ nsent = 0
    /\ ndeq = 0
    /\ last = [cmd |-> NoCommand, ok |-> TRUE]
    /\ pause_mark = None
    /\ drained = FALSE
    /\ lock = MutexNew
    /\ cur = NoCommand
    /\ got = NoResult
    /\ eq_source = None
    /\ eq_hist = NoHistory

\* PlaybackStateSync::new (lines 412-420): nothing but the channel, the
\* default snapshot and the spawned worker.
Init ==
    /\ chan = <<>>
    /\ tx_alive = TRUE
    /\ player_opt = None
    /\ shared_state = PlaybackStateDefault
    /\ pc = "recv"
    /\ now = 0
    /\ ret = "none"
    /\ nsent = 0
    /\ ndeq = 0
    /\ last = [cmd |-> NoCommand, ok |-> TRUE]
    /\ pause_mark = None
    /\ drained = FALSE
    /\ lock = MutexNew
    /\ cur = NoCommand
    /\ got = NoResult
    /\ eq_source = None
    /\ eq_hist = NoHistory

\* ------------------------------------------------------------ the facade
\* A send that answers for the execution: it refuses a Play of a file that
\* does not exist.
send_checked(ch, rx_alive, item) ==
    IF rx_alive /\ ~(item.cmd.op = "Play" /\ ~FileExists(item.cmd.path))
    THEN [chan |-> Append(ch, item), ok |-> TRUE]
    ELSE [chan |-> ch, ok |-> FALSE]

\* Sender::send: appends unless the Receiver was dropped (the worker left
\* its loop); the command comes back in the error otherwise.
send(ch, rx_alive, item) ==
    IF rx_alive THEN [chan |-> Append(ch, item), ok |-> TRUE]
    ELSE [chan |-> ch, ok |-> FALSE]

\* A control call that also writes the new settings into the snapshot.
ControlOptimistic(cmd) ==
    /\ tx_alive
    /\ LET r == send(chan, pc \notin {"exit", "panicked"},
                     [cmd |-> cmd, id |-> nsent + 1])
       IN  /\ chan' = r.chan
           /\ ret' = IF r.ok THEN "Ok" ELSE "Err"
           /\ nsent' = IF r.ok THEN nsent + 1 ELSE nsent
    /\ shared_state' = IF cmd.op = "SetEq"
                       THEN [shared_state EXCEPT !.eq_settings = cmd.eq]
                       ELSE shared_state
    /\ UNCHANGED <<tx_alive, player_opt, pc, now, ndeq, last,
                   pause_mark,
                   drained, lock, cur, got,
                   eq_source, eq_hist>>

\* command_tx.send(cmd).map_err(|e| e.to_string())
Control(cmd) ==
    /\ tx_alive
    /\ LET r == send(chan, pc \notin {"exit", "panicked"},
                     [cmd |-> cmd, id |-> nsent + 1])
       IN  /\ chan' = r.chan
           /\ ret' = IF r.ok THEN "Ok" ELSE "Err"
           /\ nsent' = IF r.ok THEN nsent + 1 ELSE nsent
    /\ UNCHANGED <<tx_alive, player_opt, shared_state, pc, now, ndeq, last,
                   pause_mark,
                   drained, lock, cur, got,
                   eq_source, eq_hist>>

\* The callers of a run send at most MaxCmds commands, at most MaxQueue of
\* them waiting at once.
Room == nsent < MaxCmds /\ Len(chan) < MaxQueue

audio_play == Room /\ \E path \in Paths : Control(Play(path))
audio_pause == Room /\ Control(Pause)
audio_resume == Room /\ Control(Resume)
audio_stop == Room /\ Control(Stop)
audio_set_volume == Room /\ \E v \in VolumeArgs : Control(SetVolume(v))
audio_seek == Room /\ \E f \in SeekArgs : Control(Seek(f))
audio_set_eq == Room /\ \E e \in EqValues : Control(SetEq(e))

\* The managed PlaybackStateSync is dropped (the application shuts down).
DropFacade ==
    /\ tx_alive
    /\ tx_alive' = FALSE
    /\ UNCHANGED <<chan, player_opt, shared_state, pc, now, ret, nsent, ndeq,
                   last, pause_mark,
                   drained, lock, cur, got,
                   eq_source, eq_hist>>

\* ------------------------------------------------------------ the worker
RecvNewest(ch) == [item |-> ch[Len(ch)], rest |-> SubSeq(ch, 1, Len(ch) - 1)]

\* rx.recv_timeout: the oldest command of the channel.
Recv(ch) == [item |-> Head(ch), rest |-> Tail(ch)]

\* A failed initialization that marks the snapshot initialized all the same.
WorkerInitFailedMarked ==
    /\ pc = "recv"
    /\ chan # <<>>
    /\ player_opt = None
    /\ chan' = Recv(chan).rest
    /\ ndeq' = ndeq + 1
    /\ shared_state' = [shared_state EXCEPT !.is_initialized = TRUE]
    /\ UNCHANGED <<tx_alive, player_opt, pc, now, ret, nsent, last, pause_mark,
                   drained, lock, cur, got,
                   eq_source, eq_hist>>

\* Ok(cmd) with player_opt None and AudioPlayer::new() failing: `continue`.
WorkerInitFailed ==
    /\ pc = "recv"
    /\ chan # <<>>
    /\ player_opt = None
    /\ chan' = Recv(chan).rest
    /\ ndeq' = ndeq + 1
    /\ UNCHANGED <<tx_alive, player_opt, shared_state, pc, now, ret, nsent,
                   last, pause_mark,
                   drained, lock, cur, got,
                   eq_source, eq_hist>>

\* Ok(cmd): lazy initialization if needed, then the command is executed.
WorkerCommand ==
    /\ pc = "recv"
    /\ chan # <<>>
    /\ LET cmd == Recv(chan).item.cmd
           player == IF player_opt = None THEN AudioPlayerNew ELSE player_opt[1]
       IN  /\ ~SeekPanics(player, cmd)
           /\ \E outcome \in Outcomes(player, cmd) :
                LET r == Dispatch(player, cmd, outcome, now)
                IN  /\ player_opt' = Some(r.p)
                    /\ last' = [cmd |-> cmd, ok |-> r.ok]
                    /\ drained' = DrainedAfter(player, cmd, outcome, r.p, drained)
                    /\ pause_mark' = PauseMarkAfter(player, cmd, pause_mark, now)
    /\ shared_state' = IF player_opt = None
                       THEN [shared_state EXCEPT !.is_initialized = TRUE]
                       ELSE shared_state
    /\ chan' = Recv(chan).rest
    /\ ndeq' = ndeq + 1
    /\ pc' = "publish"
    /\ UNCHANGED <<tx_alive, now, ret, nsent,
                   lock, cur, got,
                   eq_source, eq_hist>>

\* A timeout that goes back to recv_timeout without publishing.
WorkerTimeoutContinue ==
    /\ pc = "recv"
    /\ chan = <<>>
    /\ tx_alive
    /\ UNCHANGED vars

\* Err(Timeout): nothing arrived for 100 ms.
WorkerTimeout ==
    /\ pc = "recv"
    /\ chan = <<>>
    /\ tx_alive
    /\ pc' = "publish"
    /\ UNCHANGED <<chan, tx_alive, player_opt, shared_state, now, ret, nsent,
                   ndeq, last, pause_mark,
                   drained, lock, cur, got,
                   eq_source, eq_hist>>

\* Err(Disconnected): the channel is empty and every Sender is gone.
WorkerDisconnected ==
    /\ pc = "recv"
    /\ chan = <<>>
    /\ ~tx_alive
    /\ pc' = "exit"
    /\ UNCHANGED <<chan, tx_alive, player_opt, shared_state, now, ret, nsent,
                   ndeq, last, pause_mark,
                   drained, lock, cur, got,
                   eq_source, eq_hist>>

\* An iteration that ends without recomputing the snapshot.
WorkerPublishSkipped ==
    /\ pc = "publish"
    /\ pc' = "recv"
    /\ UNCHANGED <<chan, tx_alive, player_opt, shared_state, now, ret, nsent,
                   ndeq, last, pause_mark,
                   drained, lock, cur, got,
                   eq_source, eq_hist>>

\* Lines 473-478: the snapshot is recomputed under the lock.
WorkerPublish ==
    /\ pc = "publish"
    /\ shared_state' = IF player_opt = None THEN shared_state
                       ELSE update_state(player_opt[1], shared_state, now)
    /\ pc' = "recv"
    /\ UNCHANGED <<chan, tx_alive, player_opt, now, ret, nsent, ndeq, last,
                   pause_mark,
                   drained, lock, cur, got,
                   eq_source, eq_hist>>

\* ------------------------------------------------------------------ time
\* A tick of wall-clock time; the output device consumes the sink's queue.
Tick ==
    /\ now < MaxTime
    /\ now' = now + 1
    /\ player_opt' = IF player_opt = None THEN None
                     ELSE Some([player_opt[1] EXCEPT !.sink = SinkDrain(@)])
    /\ drained' = (drained \/ (player_opt # None /\ SinkDrained(player_opt[1].sink)))
    /\ UNCHANGED <<chan, tx_alive, shared_state, pc, ret, nsent, ndeq, last,
                   pause_mark,
                   lock, cur, got,
                   eq_source, eq_hist>>

\* Any caller, any command, while the application runs.
Next ==
    \/ audio_play
    \/ audio_pause
    \/ audio_resume
    \/ audio_stop
    \/ audio_set_volume
    \/ audio_seek
    \/ audio_set_eq
    \/ WorkerInitFailed
    \/ WorkerCommand
    \/ WorkerTimeout
    \/ WorkerPublish
    \/ Tick

Spec == Init /\ [][Next]_vars

\* One caller that sends Play(A), Pause, Resume, Stop in that order, at any
\* pace relative to the worker.
Scenario == <<Play("A"), Pause, Resume, Stop>>

CallerScenario ==
    /\ nsent < Len(Scenario)
    /\ Control(Scenario[nsent + 1])

NextScenario ==
    \/ CallerScenario
    \/ WorkerInitFailed
    \/ WorkerCommand
    \/ WorkerTimeout
    \/ WorkerPublish
    \/ Tick

SpecScenario == Init /\ [][NextScenario]_vars

\* Callers that only load, pause and seek.
SeekCallerCommands == {Play("A"), Play("X"), Pause} \cup {Seek(f) : f \in SeekArgs}

CallerSeek ==
    /\ nsent < MaxSeekCmds
    /\ Len(chan) < MaxQueue
    /\ \E cmd \in SeekCallerCommands : Control(cmd)

NextSeek ==
    \/ CallerSeek
    \/ WorkerInitFailed
    \/ WorkerCommand
    \/ WorkerTimeout
    \/ WorkerPublish
    \/ Tick

SpecSeek == Init /\ [][NextSeek]_vars

\* Callers that only load, pause and resume, and then leave the worker to
\* its timeouts. The worker is a thread in a loop of its own: a command in
\* the channel is received, an empty channel times out after 100 ms, and
\* the iteration goes on to its publish.
IdleCallerCommands == {Play("A"), Play("B"), Pause, Resume}

CallerIdle ==
    /\ nsent < MaxIdleCmds
    /\ Len(chan) < MaxQueue
    /\ \E cmd \in IdleCallerCommands : Control(cmd)

NextIdle ==
    \/ CallerIdle
    \/ WorkerInitFailed
    \/ WorkerCommand
    \/ WorkerTimeout
    \/ WorkerPublish
    \/ Tick

SpecIdle ==
    /\ Init
    /\ [][NextIdle]_vars
    /\ WF_vars(WorkerInitFailed \/ WorkerCommand)
    /\ WF_vars(WorkerTimeout)
    /\ WF_vars(WorkerPublish)

\* ------------------------------------------- the worker, lock by lock
\* The iteration of the worker in the steps between which another thread
\* can run: pc is also "mark" (line 430, before the lock), "marking" (the
\* guard of line 430 is held), "exec" (line 441, a command is dequeued),
\* "publishing" (the guard of line 475 is held) and "panicked".

\* Ok(cmd), and AudioPlayer::new() succeeding if there is no engine yet.
LockDequeue ==
    /\ pc = "recv"
    /\ chan # <<>>
    /\ cur' = Recv(chan).item.cmd
    /\ chan' = Recv(chan).rest
    /\ ndeq' = ndeq + 1
    /\ player_opt' = IF player_opt = None THEN Some(AudioPlayerNew) ELSE player_opt
    /\ pc' = IF player_opt = None THEN "mark" ELSE "exec"
    /\ UNCHANGED <<tx_alive, shared_state, now, ret, nsent, last, pause_mark,
                   drained, lock, got,
                   eq_source, eq_hist>>

\* if let Ok(mut s) = state_clone.lock(): blocks while another thread holds
\* the guard; Err on a poisoned mutex, and the block is skipped.
LockMarkAcquire ==
    /\ pc = "mark"
    /\ lock.holder = "none"
    /\ lock' = IF lock.poisoned THEN lock ELSE [lock EXCEPT !.holder = "worker"]
    /\ pc' = IF lock.poisoned THEN "exec" ELSE "marking"
    /\ UNCHANGED <<chan, tx_alive, player_opt, shared_state, now, ret, nsent,
                   ndeq, last, pause_mark, drained, cur, got,
                   eq_source, eq_hist>>

\* A guard that lives to the end of the Ok(cmd) arm.
LockMarkHeld ==
    /\ pc = "marking"
    /\ shared_state' = [shared_state EXCEPT !.is_initialized = TRUE]
    /\ pc' = "exec"
    /\ UNCHANGED <<chan, tx_alive, player_opt, now, ret, nsent, ndeq, last,
                   pause_mark, drained, lock, cur, got,
                   eq_source, eq_hist>>

\* s.is_initialized = true; the guard is dropped at the end of the if let.
LockMarkRelease ==
    /\ pc = "marking"
    /\ shared_state' = [shared_state EXCEPT !.is_initialized = TRUE]
    /\ lock' = [lock EXCEPT !.holder = "none"]
    /\ pc' = "exec"
    /\ UNCHANGED <<chan, tx_alive, player_opt, now, ret, nsent, ndeq, last,
                   pause_mark, drained, cur, got,
                   eq_source, eq_hist>>

\* The match on the dequeued command.
LockExec ==
    /\ pc = "exec"
    /\ \E outcome \in Outcomes(player_opt[1], cur) :
         LET r == Dispatch(player_opt[1], cur, outcome, now)
         IN  /\ player_opt' = Some(r.p)
             /\ last' = [cmd |-> cur, ok |-> r.ok]
             /\ drained' = DrainedAfter(player_opt[1], cur, outcome, r.p, drained)
             /\ pause_mark' = PauseMarkAfter(player_opt[1], cur, pause_mark, now)
    /\ cur' = NoCommand
    /\ pc' = "publish"
    /\ UNCHANGED <<chan, tx_alive, shared_state, now, ret, nsent, ndeq, lock, got,
                   eq_source, eq_hist>>

\* A panic under the worker's feet while it executes a command (a panic
\* inside the decoder or the output library): the thread unwinds, the
\* Receiver and the engine are dropped, and a guard it held would poison
\* the mutex.
LockPanic ==
    /\ pc = "exec"
    /\ pc' = "panicked"
    /\ lock' = IF lock.holder = "worker"
               THEN [holder |-> "none", poisoned |-> TRUE] ELSE lock
    /\ cur' = NoCommand
    /\ UNCHANGED <<chan, tx_alive, player_opt, shared_state, now, ret, nsent,
                   ndeq, last, pause_mark, drained, got,
                   eq_source, eq_hist>>

\* Lines 473-475: nothing to publish without an engine; else the lock is
\* taken, and the block is skipped on a poisoned mutex.
LockPublishAcquire ==
    /\ pc = "publish"
    /\ player_opt = None \/ lock.holder = "none"
    /\ lock' = IF player_opt = None \/ lock.poisoned THEN lock
               ELSE [lock EXCEPT !.holder = "worker"]
    /\ pc' = IF player_opt = None \/ lock.poisoned THEN "recv" ELSE "publishing"
    /\ UNCHANGED <<chan, tx_alive, player_opt, shared_state, now, ret, nsent,
                   ndeq, last, pause_mark, drained, cur, got,
                   eq_source, eq_hist>>

\* Line 476: update_state under the guard, which is then dropped.
LockPublishRelease ==
    /\ pc = "publishing"
    /\ shared_state' = update_state(player_opt[1], shared_state, now)
    /\ lock' = [lock EXCEPT !.holder = "none"]
    /\ pc' = "recv"
    /\ UNCHANGED <<chan, tx_alive, player_opt, now, ret, nsent, ndeq, last,
                   pause_mark, drained, cur, got,
                   eq_source, eq_hist>>

\* ------------------------------------------------------------ the queries
\* A query locks the snapshot, reads it and drops the guard: it waits while
\* the worker holds the guard, and finds Err on a poisoned mutex.
Query(res) ==
    /\ lock.holder = "none"
    /\ got' = res
    /\ UNCHANGED <<chan, tx_alive, player_opt, shared_state, pc, now, ret, nsent,
                   ndeq, last, pause_mark, drained, lock, cur,
                   eq_source, eq_hist>>

\* lock().map_err(|_| "Lock poisoned")?.clone()
audio_get_state ==
    Query(IF lock.poisoned
          THEN Result("get_state", FALSE, PlaybackStateDefault, FALSE, pc)
          ELSE Result("get_state", TRUE, shared_state, FALSE, pc))

audio_is_finished ==
    Query(IF lock.poisoned
          THEN Result("is_finished", FALSE, PlaybackStateDefault, FALSE, pc)
          ELSE Result("is_finished", TRUE, PlaybackStateDefault,
                      is_finished(shared_state), pc))

\* lock().map(|s| s.is_initialized).unwrap_or(false)
native_audio_available ==
    Query(Result("is_available", TRUE, PlaybackStateDefault,
                 IF lock.poisoned THEN FALSE ELSE shared_state.is_initialized, pc))

\* Callers that load, stop and change the EQ, beside the queries.
LockCallerCommands == {Play("A"), Stop, SetEq(EqBoost)}

CallerLock ==
    /\ nsent < MaxLockCmds
    /\ Len(chan) < MaxQueue
    /\ \E cmd \in LockCallerCommands : Control(cmd)

NextLock ==
    \/ CallerLock
    \/ audio_get_state
    \/ audio_is_finished
    \/ native_audio_available
    \/ WorkerInitFailed
    \/ LockDequeue
    \/ LockMarkAcquire
    \/ LockMarkRelease
    \/ LockExec
    \/ LockPanic
    \/ WorkerTimeout
    \/ LockPublishAcquire
    \/ LockPublishRelease
    \/ Tick

SpecLock == Init /\ [][NextLock]_vars

\* ------------------------------------------------ the equalizer at work
\* The variables of the player, which the pipeline never touches.
player_vars == <<chan, tx_alive, player_opt, shared_state, pc, now, ret, nsent,
                 ndeq, last, pause_mark, drained, lock, cur, got>>

\* EqSource::new over an input and the stored settings, as play_file does
\* (line 302).
EqBuild ==
    /\ eq_source = None
    /\ \E input \in InputSources, settings \in EqSettings :
         /\ eq_source' = Some(EqSourceNew(input, settings))
         /\ eq_hist' = [settings |-> settings, input |-> input, out |-> <<>>,
                        ended |-> FALSE]
    /\ UNCHANGED player_vars

\* A Seek: the same file is decoded again and a new pipeline is built over
\* it from the same settings, wherever the old one had got to.
EqRebuild ==
    /\ eq_source # None
    /\ eq_hist.out # <<>>
    /\ eq_source' = Some(EqSourceNew(eq_hist.input, eq_hist.settings))
    /\ eq_hist' = [eq_hist EXCEPT !.out = <<>>, !.ended = FALSE]
    /\ UNCHANGED player_vars

\* The sink pulls the next sample.
EqPull ==
    /\ eq_source # None
    /\ ~eq_hist.ended
    /\ LET r == EqSourceNext(eq_source[1])
       IN  /\ eq_source' = Some(r.self)
           /\ eq_hist' = IF r.item = None THEN [eq_hist EXCEPT !.ended = TRUE]
                         ELSE [eq_hist EXCEPT !.out = Append(@, r.item[1])]
    /\ UNCHANGED player_vars

NextEq ==
    \/ EqBuild
    \/ EqRebuild
    \/ EqPull

SpecEq == Init /\ [][NextEq]_vars

\* Ok(cmd) with a Seek whose fraction is a NaN, on a loaded track of known
\* duration: the worker thread panics inside seek and unwinds; the
\* Receiver is dropped with it.
WorkerPanic ==
    /\ pc = "recv"
    /\ chan # <<>>
    /\ player_opt # None
    /\ SeekPanics(player_opt[1], Recv(chan).item.cmd)
    /\ last' = [cmd |-> Recv(chan).item.cmd, ok |-> FALSE]
    /\ chan' = Recv(chan).rest
    /\ ndeq' = ndeq + 1
    /\ pc' = "panicked"
    /\ UNCHANGED <<tx_alive, player_opt, shared_state, now, ret, nsent,
                   pause_mark, drained, lock, cur, got, eq_source, eq_hist>>

\* Callers that load a track, pause it and seek in it, with any f64 as the
\* fraction: one in range and one that is not a number.
LifetimeCallerCommands == {Play("A"), Pause, Seek(<<1, 2>>), Seek(NaNFraction)}

CallerLifetime ==
    /\ nsent < MaxLifeCmds
    /\ Len(chan) < MaxQueue
    /\ \E cmd \in LifetimeCallerCommands : Control(cmd)

\* The application also shuts down: the facade is dropped and the worker
\* leaves its loop once the channel is drained.
NextLifetime ==
    \/ CallerLifetime
    \/ DropFacade
    \/ WorkerInitFailed
    \/ WorkerCommand
    \/ WorkerPanic
    \/ WorkerTimeout
    \/ WorkerDisconnected
    \/ WorkerPublish
    \/ Tick

SpecLifetime == Init /\ [][NextLifetime]_vars

\* ================================================================ claims
\* The worker's step that executes a command, the player it acts on (a new
\* one when the step also initializes) and the player it leaves.
ExecStep == pc = "recv" /\ pc' = "publish"  /\ chan # <<>> /\ chan' # chan
ExecCmd == Head(chan).cmd
Pre == IF player_opt = None THEN AudioPlayerNew ELSE player_opt[1]
Post == player_opt'[1]
Player == player_opt[1]
Published == pc = "recv"

\* C1: the channel always holds exactly the commands enqueued and not yet
\* dequeued, oldest first (so the worker, which dequeues only between two
\* iterations, executes them in the order of enqueueing); and once the
\* caller's Play(A), Pause, Resume, Stop are all processed by an initialized
\* engine and the snapshot is published, its current_path is empty.
C1_CommandOrder ==
    /\ Len(chan) = nsent - ndeq
    /\ \A i \in 1..Len(chan) : chan[i].id = ndeq + i
    /\ (nsent = Len(Scenario) /\ ndeq = nsent /\ Published /\ player_opt # None)
          => shared_state.current_path = ""

\* All four commands were executed (the Play loaded A: its duration is still
\* recorded), the Stop last, and the snapshot is published.
C1_Witness ==
    /\ ndeq = Len(Scenario)
    /\ Published
    /\ last.cmd = Stop
    /\ shared_state.is_initialized
    /\ shared_state.duration = 2
    /\ shared_state.current_path = ""

\* C2: in every published snapshot with a known duration, position is at
\* most the duration.
C2_PositionWithinDuration ==
    shared_state.duration > 0 => shared_state.position <= shared_state.duration

\* C3: in every published snapshot, and in the engine, the position is not
\* negative.
C3_PositionNonNegative ==
    /\ shared_state.position >= 0
    /\ player_opt # None =>
          /\ Player.position_at_pause >= 0
          /\ Position(Player, now) >= 0

\* A Seek with a negative fraction was executed on a loaded track and the
\* snapshot published after it.
C3_Witness ==
    /\ last.cmd = Seek(<<-1, 2>>)
    /\ last.ok
    /\ Published
    /\ shared_state.current_path = "A"
    /\ shared_state.position = 0

\* C4: the stored and the reported volume are always within [0, 1] (0..10
\* tenths); the volume is the default 0.7 until a SetVolume is executed, and
\* after SetVolume(v) the stored volume is 0 for v < 0, 1 for v > 1 and v
\* otherwise.
C4_VolumeClamped ==
    /\ shared_state.volume \in 0..10
    /\ player_opt = None => shared_state.volume = 7
    /\ player_opt # None =>
          /\ Player.volume \in 0..10
          /\ last.cmd.op = "SetVolume" =>
                Player.volume = IF last.cmd.v < 0 THEN 0
                                ELSE IF last.cmd.v > 10 THEN 10 ELSE last.cmd.v

\* SetVolume(-1.0) was executed and the snapshot reports volume 0.
C4_Witness ==
    /\ last.cmd = SetVolume(-10)
    /\ Published
    /\ shared_state.volume = 0

\* C5: a Play(path) that succeeds leaves current_path = path, accumulated
\* position 0, a segment started at the time of the Play and the duration
\* the decoder reports for path (None when it reports none), whatever the
\* state before; a snapshot taken at that instant reports position 0.
C5_PlayResets ==
    [][(ExecStep /\ ExecCmd.op = "Play" /\ last'.ok) =>
          /\ Post.current_path = ExecCmd.path
          /\ Post.position_at_pause = 0
          /\ Post.playback_started_at = Some(now)
          /\ Post.track_duration = FileDuration(ExecCmd.path)
          /\ update_state(Post, shared_state', now').position = 0
          /\ update_state(Post, shared_state', now').duration =
                (IF ExecCmd.path = "A" THEN 2 ELSE 0)]_vars

\* Play(B), whose duration is unknown, has just succeeded while the snapshot
\* still shows track A with its duration.
C5_Witness ==
    /\ pc = "publish"
    /\ last.cmd = Play("B")
    /\ last.ok
    /\ shared_state.current_path = "A"
    /\ shared_state.duration = 2
    /\ Player.track_duration = None

\* C6: after a Play that failed, the engine does not hold a loaded track
\* with an active segment over an empty (discarded) queue: it is in no state
\* other than "no track loaded".
C6_FailedPlayUnloads ==
    (player_opt # None /\ last.cmd.op = "Play" /\ ~last.ok) =>
        ~(/\ Player.current_path # ""
          /\ Player.playback_started_at # None
          /\ SinkEmpty(Player.sink))

\* C7: a control call returns Ok exactly when it appended its command to the
\* channel and Err exactly when the worker has left its loop; it changes
\* neither engine nor snapshot, and executing a command, successfully or
\* not, never changes a result already returned.
C7_EnqueueResult ==
    [][/\ (nsent' # nsent \/ ret' # ret \/ Len(chan') > Len(chan)) =>
             /\ (ret' = "Ok") <=>
                   /\ Len(chan') = Len(chan) + 1
                   /\ SubSeq(chan', 1, Len(chan)) = chan
                   /\ nsent' = nsent + 1
             /\ (ret' = "Err") <=> (pc = "exit")
             /\ ret' = "Err" => chan' = chan
             /\ UNCHANGED <<player_opt, shared_state, last>>
       /\ (pc = "recv" /\ pc' # "recv") => ret' = ret]_vars

\* The only command ever sent is a Play of a file that does not exist: the
\* call returned Ok, and its execution failed afterwards.
C7_Witness ==
    /\ nsent = 1
    /\ ret = "Ok"
    /\ last.cmd = Play("X")
    /\ ~last.ok

\* C8: a Pause of an active segment adds the segment's elapsed time to the
\* accumulated position and clears the segment; while that Pause is the last
\* command executed the reported position does not change as time passes;
\* and after a Resume executed at the same instant as the Pause the reported
\* position is the one reported just before the Pause, and is_playing is
\* true exactly if the queue is not empty.
C8_PauseResume ==
    [][/\ (ExecStep /\ ExecCmd.op = "Pause" /\ Pre.playback_started_at # None) =>
             /\ Post.position_at_pause =
                   Pre.position_at_pause + (now - Pre.playback_started_at[1])
             /\ Post.playback_started_at = None
             /\ SinkIsPaused(Post.sink)
       /\ (pause_mark # None /\ pause_mark' = pause_mark /\ ~pause_mark[1].resumed) =>
             Position(Post, now') = Position(Player, now)
       /\ (pause_mark' # None /\ pause_mark'[1].resumed /\ pause_mark' # pause_mark) =>
             /\ ExecStep /\ ExecCmd.op = "Resume"
             /\ update_state(Post, shared_state', now').position = pause_mark'[1].pos
             /\ update_state(Post, shared_state', now').is_playing
                   = ~SinkEmpty(Post.sink)]_vars

\* A Resume was executed at the instant of a Pause that had folded a running
\* segment; the position is past 0, audio is still queued and the published
\* snapshot reports playback at the position reported before the Pause.
C8_Witness ==
    /\ pause_mark # None
    /\ pause_mark[1].resumed
    /\ pause_mark[1].pos > 0
    /\ now = pause_mark[1].at
    /\ Published
    /\ shared_state.is_playing
    /\ shared_state.position = pause_mark[1].pos

\* clamp(f, 0, 1) x duration for the fraction f = <<num, den>>.
SeekTarget(duration, f) ==
    IF f[1] < 0 THEN 0 ELSE IF f[1] > f[2] THEN duration ELSE (duration * f[1]) \div f[2]

\* C9: a Seek that succeeds sets the position to clamp(f, 0, 1) x duration;
\* if a segment was active before, one is active after, started at the time
\* of the Seek; if none was active before (the engine was paused), none is
\* active after and the queue is paused.
C9_SeekPreservesState ==
    [][(/\ ExecStep
        /\ ExecCmd.op = "Seek"
        /\ Pre.current_path # ""
        /\ Pre.track_duration # None
        /\ last'.ok) =>
          /\ Post.position_at_pause = SeekTarget(Pre.track_duration[1], ExecCmd.f)
          /\ Position(Post, now) = Post.position_at_pause
          /\ Pre.playback_started_at # None =>
                /\ Post.playback_started_at = Some(now)
                /\ ~SinkIsPaused(Post.sink)
          /\ Pre.playback_started_at = None =>
                /\ Post.playback_started_at = None
                /\ SinkIsPaused(Post.sink)]_vars

\* C10: a Seek executed with no track loaded, or with a track of unknown
\* duration, fails and leaves every field of the engine, the queue included,
\* as it was.
C10_SeekRejected ==
    [][(/\ ExecStep
        /\ ExecCmd.op = "Seek"
        /\ (Pre.current_path = "" \/ Pre.track_duration = None)) =>
          /\ ~last'.ok
          /\ Post = Pre]_vars

\* A Seek has just failed on track B (duration unknown) while B is playing:
\* its queue still holds audio.
C10_Witness ==
    /\ pc = "publish"
    /\ last.cmd.op = "Seek"
    /\ ~last.ok
    /\ Player.current_path = "B"
    /\ Player.playback_started_at # None
    /\ ~SinkEmpty(Player.sink)

\* C11: every published snapshot has is_playing true exactly when, at the
\* publish, a segment is active, the sink is not paused and its queue is
\* not empty; so an empty queue with a path loaded is published as not
\* playing even while a segment is active.
C11_IsPlayingIff ==
    [][(pc = "publish" /\ pc' = "recv" /\ player_opt # None)
        => /\ shared_state'.is_playing
                = (/\ Player.playback_started_at # None
                   /\ ~Player.sink.paused
                   /\ Player.sink.left > 0)
           /\ (Player.sink.left = 0 /\ Player.current_path # "")
                => ~shared_state'.is_playing]_vars

C11_Witness ==
    /\ Published
    /\ player_opt # None
    /\ Player.playback_started_at # None
    /\ ~Player.sink.paused
    /\ Player.sink.left = 0
    /\ Player.current_path = "A"
    /\ shared_state.current_path = "A"
    /\ shared_state.position = 2
    /\ ~shared_state.is_playing

\* C13: the engine does not exist after construction and is never created by
\* a timeout; it is created only by a step that dequeues a command, and
\* while it does not exist the snapshot is the default one, is_initialized
\* false included.
C13_LazyInit ==
    /\ [](ndeq = 0 => player_opt = None)
    /\ [](player_opt = None => shared_state = PlaybackStateDefault)
    /\ [](shared_state.is_initialized <=> player_opt # None)
    /\ [][(player_opt = None /\ player_opt' # None)
            => (chan # <<>> /\ chan' = Tail(chan) /\ ndeq' = ndeq + 1)]_vars

\* Timeouts and time have passed, and a first command waits: no engine yet.
C13_Witness ==
    /\ pc = "publish"
    /\ ndeq = 0
    /\ now > 0
    /\ chan # <<>>
    /\ player_opt = None
    /\ ~shared_state.is_initialized

\* C14: a failed initialization drops the command that triggered it and
\* changes neither engine nor snapshot; no engine appears until a later
\* command is dequeued, and when an initialization then succeeds the command
\* dequeued by that very step is the first one executed.
C14_InitFailure ==
    [][/\ (player_opt = None /\ ndeq' = ndeq + 1 /\ pc' = "recv")
            => /\ chan' = Tail(chan)
               /\ UNCHANGED <<player_opt, shared_state, last, pc>>
       /\ (player_opt = None /\ player_opt' # None)
            => /\ ndeq' = ndeq + 1
               /\ last.cmd = NoCommand
               /\ last'.cmd = Head(chan).cmd
               /\ Head(chan).id = ndeq'
               /\ \E outcome \in Outcomes(AudioPlayerNew, Head(chan).cmd) :
                    Post = Dispatch(AudioPlayerNew, Head(chan).cmd, outcome, now).p]_vars

\* Two commands were dequeued, the first was dropped, the second is the
\* first one executed: a Play that loaded its track.
C14_Witness ==
    /\ ndeq = 2
    /\ pc = "publish"
    /\ shared_state = [PlaybackStateDefault EXCEPT !.is_initialized = TRUE]
    /\ last.cmd = Play("A")
    /\ last.ok
    /\ Player.current_path = "A"

\* C16: whenever the worker is about to dequeue a command with an engine in
\* place, the snapshot already shows what every executed command left in
\* the engine: path, duration, volume and EQ settings are the engine's own,
\* and position and is_playing are the ones computed from the engine at
\* the publish that ended the iteration of the last command.
C16_SnapshotFollowsEngine ==
    /\ []((pc = "recv" /\ player_opt # None)
            => /\ shared_state.is_initialized
               /\ shared_state.current_path = Player.current_path
               /\ shared_state.duration = DurationSecs(Player.track_duration)
               /\ shared_state.volume = Player.volume
               /\ shared_state.eq_settings = Player.eq_settings)
    /\ [][ExecStep => pc' = "publish"]_vars
    /\ [][pc = "publish" => UNCHANGED <<ndeq, last>>]_vars
    /\ [][(pc = "publish" /\ pc' = "recv" /\ player_opt # None)
            => /\ shared_state'.position = Position(Player, now)
               /\ UNCHANGED <<player_opt, chan, ndeq>>]_vars

\* A SetVolume was executed and published while the next command waits.
C16_Witness ==
    /\ pc = "recv"
    /\ last.cmd = SetVolume(5)
    /\ ndeq = 2
    /\ chan # <<>>
    /\ shared_state.volume = 5
    /\ shared_state.current_path = "A"

\* C18: after a Stop is executed the engine has an empty queue, no path, no
\* accumulated position and no active segment; the snapshot published right
\* after it has an empty path, position 0, is_playing false, and
\* is_finished is false on it.
C18_StopResets ==
    /\ [][(ExecStep /\ ExecCmd = Stop)
            => /\ Post.sink.left = 0
               /\ Post.current_path = ""
               /\ Post.position_at_pause = 0
               /\ Post.playback_started_at = None]_vars
    /\ []((Published /\ last.cmd = Stop)
            => /\ shared_state.current_path = ""
               /\ shared_state.position = 0
               /\ ~shared_state.is_playing
               /\ ~is_finished(shared_state))

\* A Stop of a track that was playing for a while, published.
C18_Witness ==
    /\ Published
    /\ last.cmd = Stop
    /\ shared_state.duration = 2
    /\ now >= 1
    /\ ndeq >= 2
    /\ shared_state.position = 0
    /\ shared_state.current_path = ""

\* C19: a SetEq stores the new settings, and the snapshot published after
\* it reports them; if a track is loaded and the file can be reopened, the
\* queue the SetEq leaves was built from the new settings, reports the
\* position reported before it, and is playing or paused as before.
C19_SetEqRebuilds ==
    /\ []((Published /\ last.cmd.op = "SetEq")
            => shared_state.eq_settings = last.cmd.eq)
    /\ [][(ExecStep /\ ExecCmd.op = "SetEq")
            => /\ Post.eq_settings = ExecCmd.eq
               /\ \A outcome \in Outcomes(Pre, ExecCmd) :
                    (/\ outcome = "ok"
                     /\ Post = Dispatch(Pre, ExecCmd, outcome, now).p
                     /\ Pre.current_path # "")
                    => /\ Post.sink.eq = Some(ExecCmd.eq)
                       /\ Position(Post, now) = Position(Pre, now)
                       /\ Post.sink.paused = Pre.sink.paused
                       /\ (Post.playback_started_at # None)
                            = (Pre.playback_started_at # None)]_vars

\* C12: once the queue of a loaded track has been played to its end, a
\* snapshot published from that engine has is_playing false, and
\* is_finished becomes true on the snapshots to come whatever Pause, Resume
\* or SetVolume was executed since. Stated on the engine states in which
\* the position can no longer move (no segment is active), where the
\* snapshots to come are the current one: is_finished is true there.
C12_EndOfTrackFinishes ==
    (/\ player_opt # None
     /\ drained
     /\ Player.current_path # ""
     /\ last.cmd.op \in {"Play", "Pause", "Resume", "SetVolume"}
     /\ Published
     /\ shared_state = update_state(Player, shared_state, now))
    => /\ ~shared_state.is_playing
       /\ Player.playback_started_at = None => is_finished(shared_state)

\* The snapshot is the one update_state computes from the engine now.
Fresh == shared_state = update_state(Player, shared_state, now)

\* The clock has passed the end of a track of known duration whose segment
\* is active.
PastEnd ==
    /\ player_opt # None
    /\ Player.playback_started_at # None
    /\ Player.track_duration # None
    /\ Player.position_at_pause + Elapsed(Player.playback_started_at, now)
         >= Player.track_duration[1]

\* The queue of a loaded track is empty.
QueueEnded ==
    /\ player_opt # None
    /\ Player.current_path # ""
    /\ Player.sink.left = 0

\* C17: every receive timeout is followed by a publish; so with an engine
\* in place the snapshot is again and again the one computed from the
\* engine and the clock, whether commands arrive or not: a position past
\* the known duration is published as the duration, and an emptied queue of
\* a loaded track is published as not playing, unless a command changes the
\* engine first.
C17_TimeoutRepublishes ==
    /\ [][(pc = "recv" /\ chan = <<>> /\ pc' # pc) => pc' = "publish"]_vars
    /\ []<>(player_opt # None => Fresh)
    /\ PastEnd ~> (~PastEnd \/ shared_state.position = shared_state.duration)
    /\ QueueEnded ~> (~QueueEnded \/ ~shared_state.is_playing)

\* One Play and nothing else: the end of the track is in the snapshot.
C17_Witness ==
    /\ Published
    /\ nsent = 1
    /\ ndeq = 1
    /\ last.cmd = Play("A")
    /\ now = 2
    /\ shared_state.position = 2
    /\ shared_state.duration = 2
    /\ ~shared_state.is_playing
    /\ Player.playback_started_at # None

\* C15: the worker holds the lock of the snapshot only to mark
\* is_initialized or to copy the recomputed state; no command is dequeued or
\* executed while it holds it, and the lock is free to a query all the time
\* a command executes.
C15_LockScope ==
    /\ [](lock.holder = "worker" => pc \in {"marking", "publishing"})
    /\ [](pc = "exec" => lock.holder = "none")
    /\ [][lock.holder = "worker" => UNCHANGED <<ndeq, cur, last>>]_vars
    /\ [][(lock.holder = "worker" /\ lock'.holder # "worker")
            => shared_state' \in {[shared_state EXCEPT !.is_initialized = TRUE],
                                  update_state(Player, shared_state, now)}]_vars

\* A query returned a snapshot while the worker was executing a Play.
C15_Witness ==
    /\ pc = "exec"
    /\ cur = Play("A")
    /\ got.call = "get_state"
    /\ got.ok
    /\ got.worker = "exec"
    /\ got.state.is_initialized

\* C20: on a poisoned lock audio_get_state and audio_is_finished return an
\* error and native_audio_available returns false; and once the worker has
\* failed, that is what every query returns.
C20_FailureSurfaces ==
    [][(got' # got /\ (lock.poisoned \/ pc = "panicked"))
        => /\ got'.call \in {"get_state", "is_finished"} => ~got'.ok
           /\ got'.call = "is_available" => ~got'.value]_vars

\* ------------------------------------------- claims on who writes what
\* A step in which a control call returns.
CallStep == nsent' # nsent \/ ret' # ret

\* C26: a control call appends one command to the channel (or nothing, when
\* it fails) and changes neither the snapshot nor the engine nor the
\* worker's position; the snapshot changes only in a step of the worker
\* that holds its lock; and the engine changes only in a step of the
\* worker (the engine is created at the dequeue, a command is executed),
\* apart from the output device consuming the queue as time passes.
C26_CallersOnlySend ==
    /\ [][CallStep
            => /\ \/ chan' = chan /\ ret' = "Err"
                  \/ /\ Len(chan') = Len(chan) + 1
                     /\ SubSeq(chan', 1, Len(chan)) = chan
                     /\ chan'[Len(chan')].id = nsent'
                     /\ ret' = "Ok"
               /\ UNCHANGED <<player_opt, shared_state, pc, lock, cur, ndeq,
                              last, now>>]_vars
    /\ [][shared_state' # shared_state
            => /\ pc \in {"marking", "publishing"}
               /\ lock.holder = "worker"
               /\ pc' # pc]_vars
    /\ [][player_opt' # player_opt
            => \/ pc \in {"recv", "exec"} /\ pc' # pc /\ ~CallStep
               \/ /\ now' = now + 1
                  /\ player_opt # None
                  /\ player_opt' = Some([Player EXCEPT !.sink = SinkDrain(@)])
                  /\ pc' = pc]_vars

\* Two calls have returned Ok and their commands wait in the channel; no
\* engine exists and the snapshot is the initial one.
C26_Witness ==
    /\ nsent = 2
    /\ ret = "Ok"
    /\ Len(chan) = 2
    /\ chan[2].cmd = SetEq(EqBoost)
    /\ ndeq = 0
    /\ player_opt = None
    /\ shared_state = PlaybackStateDefault

\* A SetEq is executed on a loaded track and builds no queue: the duration
\* is unknown, so no re-seek is made, or the re-seek fails.
SetEqWithoutRebuild ==
    /\ ExecStep
    /\ ExecCmd.op = "SetEq"
    /\ Pre.current_path # ""
    /\ \/ Pre.track_duration = None
       \/ \E outcome \in Outcomes(Pre, ExecCmd) \ {"ok"} :
             Post = Dispatch(Pre, ExecCmd, outcome, now).p

\* C28: such a SetEq is not an error of the worker, which goes on to
\* publish and to the next command; the engine holds the new settings and
\* is otherwise as before, but for its queue; what is left of the queue, if
\* anything, was built from the settings it had been built from; and the
\* snapshot published next reports the engine's settings.
C28_SetEqFailureSwallowed ==
    /\ [][SetEqWithoutRebuild
            => /\ pc' = "publish"
               /\ last'.ok
               /\ Post.eq_settings = ExecCmd.eq
               /\ [Post EXCEPT !.sink = Pre.sink]
                    = [Pre EXCEPT !.eq_settings = ExecCmd.eq]
               /\ Post.sink.left > 0 => Post.sink = Pre.sink]_vars
    /\ [][(pc = "publish" /\ pc' = "recv" /\ player_opt # None)
            => shared_state'.eq_settings = Player.eq_settings]_vars

\* The re-seek of a SetEq(boost) on track A failed; a Pause was executed
\* after it, and the snapshot reports the boost while the engine has no
\* queue built from it.
C28_Witness ==
    /\ player_opt # None
    /\ pc = "recv"
    /\ ndeq = 3
    /\ last.cmd = Pause
    /\ Player.current_path = "A"
    /\ Player.eq_settings = EqBoost
    /\ Player.sink.eq # Some(EqBoost)
    /\ shared_state.eq_settings = EqBoost
    /\ shared_state.current_path = "A"

\* A Seek is executed on a loaded track of known duration, so that it
\* passes the checks of seek, and fails.
SeekFailsLate ==
    /\ ExecStep
    /\ ExecCmd.op = "Seek"
    /\ Loads(Pre, ExecCmd)
    /\ ~last'.ok

\* C29: such a Seek leaves the engine as it was but for the queue:
\* current_path, position_at_pause, playback_started_at, volume, the EQ
\* settings and the duration are unchanged, the path is still loaded, the
\* queue is empty, and the worker goes on to publish and to the next
\* command.
C29_SeekFailureLocal ==
    [][SeekFailsLate
        => /\ [Post EXCEPT !.sink = Pre.sink] = Pre
           /\ Post.current_path # ""
           /\ SinkEmpty(Post.sink)
           /\ pc' = "publish"]_vars

\* Track A was loaded and playing when a Seek failed, before any of it was
\* played: the path is loaded, the segment is active, the queue is empty.
C29_Witness ==
    /\ player_opt # None
    /\ now = 0
    /\ ndeq = 2
    /\ last.cmd.op = "Seek"
    /\ ~last.ok
    /\ Player.current_path = "A"
    /\ Player.playback_started_at = Some(0)
    /\ SinkEmpty(Player.sink)

\* C30: is_initialized of the snapshot, once true, stays true; an engine,
\* once created, is never dropped; and is_initialized becomes true only in
\* the step that creates the engine, which happens only when there is none.
C30_InitializedForGood ==
    /\ [][shared_state.is_initialized => shared_state'.is_initialized]_vars
    /\ [][player_opt # None => player_opt' # None]_vars
    /\ [][(~shared_state.is_initialized /\ shared_state'.is_initialized)
            => player_opt = None /\ player_opt' # None]_vars

\* An engine exists, three commands were executed, the last a Play that
\* failed, and the snapshot published since is initialized.
C30_Witness ==
    /\ player_opt # None
    /\ Published
    /\ ndeq = 3
    /\ chan = <<>>
    /\ last.cmd = Play("X")
    /\ ~last.ok
    /\ shared_state.is_initialized
    /\ shared_state.current_path = ""

C32_NoTrackPositionZero ==
    (shared_state.is_initialized /\ shared_state.current_path = "")
    => shared_state.position = 0

\* C33: executing a Pause, a Resume or a SetVolume leaves the position the
\* engine reports (the one update_state computes at that moment) at least
\* what it was just before the command.
C33_PositionNotLost ==
    [][(ExecStep /\ ExecCmd.op \in {"Pause", "Resume", "SetVolume"})
        => Position(Post, now) >= Position(Pre, now)]_vars

\* C34: executing Play, Pause, Resume, Stop or Seek leaves the stored
\* volume and the stored EQ settings as they were, and the queue a
\* successful Play or Seek creates has the stored volume and was built
\* from the stored settings; executing SetVolume changes the stored volume
\* and the volume of the sink to the clamped argument, and nothing else.
C34_VolumeAndEqFrame ==
    /\ [][(ExecStep /\ ExecCmd.op \in {"Play", "Pause", "Resume", "Stop", "Seek"})
            => /\ Post.volume = Pre.volume
               /\ Post.eq_settings = Pre.eq_settings
               /\ (ExecCmd.op \in {"Play", "Seek"} /\ last'.ok)
                    => /\ Post.sink.volume = Pre.volume
                       /\ Post.sink.eq = Some(Pre.eq_settings)]_vars
    /\ [][(ExecStep /\ ExecCmd.op = "SetVolume")
            => Post = [Pre EXCEPT !.volume = ClampVolume(ExecCmd.v),
                                  !.sink = SinkSetVolume(@, ClampVolume(ExecCmd.v))]]_vars

\* SetVolume(0.5) and SetEq(boost) were executed before a Play(A) that
\* succeeded: the queue has the volume 0.5 and the boosted pipeline.
C34_Witness ==
    /\ player_opt # None
    /\ ndeq = 3
    /\ last.cmd = Play("A")
    /\ last.ok
    /\ Player.volume = 5
    /\ Player.eq_settings = EqBoost
    /\ Player.sink.volume = 5
    /\ Player.sink.eq = Some(EqBoost)
    /\ Player.sink.left = FileLen("A")

\* C35: from the execution of a Pause to the end of the execution of the
\* next command, if that is a Pause too, the engine does not change: not
\* as time passes in between, and not by the second Pause.
C35_PauseIdempotent ==
    [][(player_opt # None /\ last.cmd = Pause /\ last'.cmd = Pause)
        => player_opt' = player_opt]_vars

\* Track A was paused 0.1 s into it and paused again; 0.3 s have passed
\* since it was loaded, and the engine is as the first Pause left it.
C35_Witness ==
    /\ player_opt # None
    /\ ndeq = 3
    /\ now = 3
    /\ last.cmd = Pause
    /\ pause_mark = None
    /\ Player.current_path = "A"
    /\ Player.playback_started_at = None
    /\ Player.position_at_pause = 1
    /\ SinkIsPaused(Player.sink)
    /\ Player.sink.left = 1

\* A Play or a Seek gets as far as replacing the sink and fails, on a
\* loaded track whose queue had not played to its end.
FailsOverPendingQueue ==
    /\ ExecStep
    /\ ExecCmd.op \in {"Play", "Seek"}
    /\ Loads(Pre, ExecCmd)
    /\ ~last'.ok
    /\ Pre.current_path # ""
    /\ ~SinkEmpty(Pre.sink)

\* C36: after such a failure, the snapshot the worker computes from the
\* engine it leaves, now or at any later time with no further command, is
\* not finished.
C36_FailureNotFinished ==
    [][FailsOverPendingQueue
        => \A t \in now .. MaxTime :
             ~is_finished(update_state(Post, shared_state, t))]_vars

\* C37: a snapshot the worker publishes is finished only if the queue of
\* the engine it was computed from is empty; in particular not while the
\* engine is paused with samples left in the queue.
C37_FinishedOnlyWhenEmpty ==
    [][(pc = "publish" /\ pc' = "recv" /\ player_opt # None)
        => (is_finished(shared_state') => SinkEmpty(Player.sink))]_vars

Eq == eq_source[1]
EqPullStep ==
    /\ eq_source # None
    /\ eq_source' # None
    /\ Len(eq_hist'.out) = Len(eq_hist.out) + 1
EqSample == Head(Eq.input.samples)
EqChannel == Len(eq_hist.out) % eq_hist.input.channels
NonZeroGain(band) == band.gain # 0
Coefficients(f) == <<f.b0, f.b1, f.b2, f.a1, f.a2>>
Recurrence(f) == <<f.x1, f.x2, f.y1, f.y2>>

\* C21: with enabled = false, or with every band gain 0, the samples the
\* pipeline has returned are the samples of its input, in order, and when
\* it ends it has returned all of them; for 1 and 2 channels.
C21_PassThrough ==
    (/\ eq_source # None
     /\ \/ ~eq_hist.settings.enabled
        \/ \A i \in 1 .. Len(eq_hist.settings.bands) :
              eq_hist.settings.bands[i].gain = 0)
    => /\ eq_hist.out
            = SubSeq(eq_hist.input.samples, 1, Len(eq_hist.out))
       /\ eq_hist.ended => eq_hist.out = eq_hist.input.samples

\* A disabled pipeline with a boosted band has returned a whole stereo input.
C21_Witness ==
    /\ eq_source # None
    /\ eq_hist.ended
    /\ ~eq_hist.settings.enabled
    /\ eq_hist.settings.bands = <<[frequency |-> 2000, gain |-> 40]>>
    /\ eq_hist.input.channels = 2
    /\ eq_hist.out = <<Scale, 0, Scale, Scale>>

\* C22: the k-th sample goes through the chain of channel k mod channels:
\* the step changes the filters of that channel only, as the chain does,
\* and the cursor after n samples is n mod channels.
C22_ChannelRouting ==
    /\ [](eq_source # None
            => Eq.current_channel = Len(eq_hist.out) % eq_hist.input.channels)
    /\ [][EqPullStep
            => /\ eq_source'[1].filter_states[EqChannel]
                    = ProcessChain(Eq.filter_states[EqChannel], EqSample).chain
               /\ \A d \in 0 .. eq_hist.input.channels - 1 :
                    d # EqChannel
                    => eq_source'[1].filter_states[d] = Eq.filter_states[d]]_vars

\* Three samples of a stereo input went through a one-filter chain: the
\* two channels hold different recurrence states.
C22_Witness ==
    /\ eq_source # None
    /\ eq_hist.input.channels = 2
    /\ Len(eq_hist.out) = 3
    /\ Len(Eq.filter_states[0]) = 1
    /\ Recurrence(Eq.filter_states[0][1])[1] = Scale
    /\ Recurrence(Eq.filter_states[0][1])[2] = Scale
    /\ Eq.filter_states[0][1].y2 # 0
    /\ Eq.filter_states[1][1].x1 = Scale
    /\ Eq.filter_states[1][1].x2 = 0
    /\ Eq.filter_states[1][1].y1 # 0
    /\ Eq.filter_states[1][1].y2 = 0
    /\ Eq.current_channel = 1

\* C23: the pipeline reports the sample rate, channel count, frame length
\* and total duration of its input, has returned one sample for each
\* sample taken from the input, and ends when, and only when, the input
\* has no sample left.
C23_TransparentDecorator ==
    /\ [](eq_source # None
            => /\ sample_rate(Eq) = eq_hist.input.sample_rate
               /\ channels(Eq) = eq_hist.input.channels
               /\ total_duration(Eq) = eq_hist.input.total_duration
               /\ current_frame_len(Eq) = InputFrameLen(Eq.input)
               /\ Len(eq_hist.out) + Len(Eq.input.samples)
                    = Len(eq_hist.input.samples)
               /\ eq_hist.ended => Len(eq_hist.out) = Len(eq_hist.input.samples))
    /\ [][(eq_source # None /\ eq_hist' # eq_hist /\ eq_hist'.out = eq_hist.out
           /\ eq_hist'.input = eq_hist.input)
            => (eq_hist'.ended <=> Eq.input.samples = <<>>)]_vars

\* A filtered stereo input of known duration was returned to its end.
C23_Witness ==
    /\ eq_source # None
    /\ eq_hist.ended
    /\ Len(eq_hist.out) = 4
    /\ eq_hist.out # eq_hist.input.samples
    /\ channels(Eq) = 2
    /\ total_duration(Eq) = Some(2)
    /\ current_frame_len(Eq) = Some(0)

\* C24: a filter of a pipeline that has returned nothing yet has x1 = x2 =
\* y1 = y2 = 0, whatever pipeline was there before; and a step leaves every
\* filter of the chain it ran with x2 = the x1 before, x1 = its input x,
\* y2 = the y1 before, y1 = its output y = b0 x + b1 x1 + b2 x2 - a1 y1 -
\* a2 y2 over the state before, and the coefficients it had; the input of
\* the first filter is the sample, of the others the output of the filter
\* before, and the sample returned is the output of the last.
C24_BiquadRecurrence ==
    /\ []((eq_source # None /\ eq_hist.out = <<>>)
            => \A c \in 0 .. Eq.channels - 1 :
                 \A i \in 1 .. Len(Eq.filter_states[c]) :
                   Recurrence(Eq.filter_states[c][i]) = <<0, 0, 0, 0>>)
    /\ [][EqPullStep
            => LET before == Eq.filter_states[EqChannel]
                   after == eq_source'[1].filter_states[EqChannel]
                   n == Len(before)
                   returned == eq_hist'.out[Len(eq_hist'.out)]
               IN  /\ Len(after) = n
                   /\ returned = IF n = 0 THEN EqSample ELSE after[n].y1
                   /\ \A i \in 1 .. n :
                        LET f == before[i]
                            g == after[i]
                            x == IF i = 1 THEN EqSample ELSE after[i - 1].y1
                        IN  /\ Coefficients(g) = Coefficients(f)
                            /\ g.x2 = f.x1
                            /\ g.x1 = x
                            /\ g.y2 = f.y1
                            /\ g.y1 = FMul(f.b0, x) + FMul(f.b1, f.x1)
                                      + FMul(f.b2, f.x2)
                                      - FMul(f.a1, f.y1) - FMul(f.a2, f.y2)]_vars

\* A chain of two filters has run three times on a mono input.
C24_Witness ==
    /\ eq_source # None
    /\ eq_hist.input.channels = 1
    /\ Len(eq_hist.out) = 3
    /\ eq_hist.input.samples = <<Scale, 0, Scale>>
    /\ Len(Eq.filter_states[0]) = 2
    /\ Eq.filter_states[0][1].x1 = Scale
    /\ Eq.filter_states[0][1].x2 = 0
    /\ Eq.filter_states[0][2].x2 # 0
    /\ Eq.filter_states[0][2].y2 # 0

\* The closed-form peaking coefficients of a band, before the division by
\* a0, and a0 itself, written from the RBJ formulas.
RbjA(band) == Powf10(band.gain)
RbjAlpha(band, rate) == FDiv(Sin(EighthTurns(band.frequency, rate)), 2 * Q)
RbjCos(band, rate) == Cos(EighthTurns(band.frequency, rate))
RbjA0(band, rate) == Scale + FDiv(RbjAlpha(band, rate), RbjA(band))
RbjNumerators(band, rate) ==
    <<Scale + FMul(RbjAlpha(band, rate), RbjA(band)),
      -2 * RbjCos(band, rate),
      Scale - FMul(RbjAlpha(band, rate), RbjA(band)),
      -2 * RbjCos(band, rate),
      Scale - FDiv(RbjAlpha(band, rate), RbjA(band))>>

\* Equal to the precision of the model's numbers: a stored coefficient is
\* a truncated quotient, so multiplying it back by a0 is off by a few
\* thousandths at most.
Near(a, b) == Abs(a - b) <= 3

\* Every filter of the pipeline has the coefficients of its band: each
\* stored coefficient times a0 is the numerator of the formula.
CoefficientsAreRbj ==
    eq_source # None
    => LET kept == SelectSeq(eq_hist.settings.bands, NonZeroGain)
           rate == eq_hist.input.sample_rate
       IN  \A c \in 0 .. eq_hist.input.channels - 1 :
             \A i \in 1 .. Len(Eq.filter_states[c]) :
               \A k \in 1 .. 5 :
                 Near(FMul(Coefficients(Eq.filter_states[c][i])[k],
                           RbjA0(kept[i], rate)),
                      RbjNumerators(kept[i], rate)[k])

\* The poles of a filter are inside the unit circle, which is when its
\* impulse response converges to 0.
PolesInside(f) == Abs(f.a2) < Scale /\ Abs(f.a1) < Scale + f.a2

\* The response converges: every filter has its poles inside the unit
\* circle; and a filter with a1 = 0, where y[n] = -a2 y[n-2] once the
\* input has been silent for three samples, returns then no more than it
\* returned two samples earlier.
ImpulseResponseConverges ==
    /\ [](eq_source # None
            => \A c \in 0 .. eq_hist.input.channels - 1 :
                 \A i \in 1 .. Len(Eq.filter_states[c]) :
                   PolesInside(Eq.filter_states[c][i]))
    /\ [][EqPullStep
            => \A i \in 1 .. Len(Eq.filter_states[EqChannel]) :
                 LET f == Eq.filter_states[EqChannel][i]
                     g == eq_source'[1].filter_states[EqChannel][i]
                 IN  (f.a1 = 0 /\ g.x1 = 0 /\ f.x1 = 0 /\ f.x2 = 0)
                     => Abs(g.y1) <= Abs(f.y2)]_vars

\* C25: the coefficients the constructor stores are the RBJ peaking
\* formulas divided by a0, for every band and sample rate, and the
\* response of the filter to a unit impulse decays.
C25_PeakingBiquad == CoefficientsAreRbj /\ ImpulseResponseConverges

\* C27: with enabled settings every channel's chain has one filter for each
\* band of non-zero gain, in the order of the bands, with the coefficients
\* of that band; with disabled settings no filter at all.
C27_ChainOfBands ==
    eq_source # None
    => LET kept == SelectSeq(eq_hist.settings.bands, NonZeroGain)
       IN  \A c \in 0 .. eq_hist.input.channels - 1 :
             LET chain == Eq.filter_states[c]
             IN  IF eq_hist.settings.enabled
                 THEN /\ Len(chain) = Len(kept)
                      /\ \A i \in 1 .. Len(kept) :
                           Coefficients(chain[i])
                             = Coefficients(new_peaking(kept[i].frequency,
                                                        kept[i].gain,
                                                        eq_hist.input.sample_rate,
                                                        Q))
                 ELSE chain = <<>>

\* A zero-gain band before a boosted one is left out: both channels of a
\* rebuilt stereo pipeline have the one filter of the second band.
C27_Witness ==
    /\ eq_source # None
    /\ eq_hist.settings.enabled
    /\ eq_hist.settings.bands = <<[frequency |-> 2000, gain |-> 0],
                                  [frequency |-> 12000, gain |-> 40]>>
    /\ eq_hist.input.channels = 2
    /\ Len(Eq.filter_states[0]) = 1
    /\ Len(Eq.filter_states[1]) = 1
    /\ Coefficients(Eq.filter_states[1][1])
         = Coefficients(new_peaking(12000, 40, 16000, Q))
    /\ Len(eq_hist.out) = 2

====
